---- MODULE Spec2Model ----
(***************************************************************************)
(* Model of MedicalAgent.search and MedicalAgent.calculate_postal_distance *)
(* (src/SEARCHING.py).                                                     *)
(*                                                                         *)
(* Representation choices:                                                 *)
(*  - Python strings are TLA+ strings; SubSeq, Len and \o act on them.     *)
(*  - A pandas DataFrame is a record [cols, rows]; every row carries the   *)
(*    index label it had in the frame it was filtered from (idx) and its   *)
(*    cells (c), a function from the frame's columns to values.            *)
(*  - A float distance d is held as the integer 100 * d: sub_distance has  *)
(*    at most two decimals, so the value is exact.                         *)
(*  - A fuzzy score is held as the exact fraction <<num, den>>.            *)
(***************************************************************************)
EXTENDS Integers, Sequences, FiniteSets, TLC

VARIABLES
    df_c,         \* clinic dataset handed to search (a frame, or None)
    df_d,         \* provider dataset handed to search (a frame, or None)
    processor,    \* default preprocessing of rapidfuzz process.extract
    pc,           \* position inside search / calculate_postal_distance
    plan,         \* what think() returned
    intent,       \* plan.get('intent', 'find_doctor')
    filters,      \* plan.get('filters', {})
    keywords,     \* plan.get('keywords', '')
    target_df,    \* the copy of the chosen dataset
    filtered_df,  \* the working set
    results,      \* the returned list of rows
    meta,         \* the second component of the value search returned
    raised,       \* the exception that escaped search, or None
    sorted_matches, \* the fused name matches, best first (line 446)
    postal1,      \* first argument of calculate_postal_distance
    postal2,      \* second argument of calculate_postal_distance
    distance      \* its return value (in hundredths), -1 before the call

vars == <<df_c, df_d, processor, pc, plan, intent, filters, keywords,
          target_df, filtered_df, results, meta, raised, sorted_matches,
          postal1, postal2, distance>>

\* Python's None where a string is expected
None == "<None>"

\* Python's None where a DataFrame or a dict is expected
NoneObj == [py_none |-> TRUE]

(***************************************************************************)
(* Python string primitives                                                *)
(***************************************************************************)
UpperLetters == "ABCDEFGHIJKLMNOPQRSTUVWXYZ"
LowerLetters == "abcdefghijklmnopqrstuvwxyz"
Digits == "0123456789"

CharAt(s, i) == SubSeq(s, i, i)

\* position of the one-character string ch in alphabet, 0 when absent
IndexIn(alphabet, ch) ==
    IF \E i \in 1..Len(alphabet) : CharAt(alphabet, i) = ch
    THEN CHOOSE i \in 1..Len(alphabet) : CharAt(alphabet, i) = ch
    ELSE 0

LowerTable ==
    [ch \in {CharAt(UpperLetters, i) : i \in 1..Len(UpperLetters)} |->
        CharAt(LowerLetters, IndexIn(UpperLetters, ch))]

LowerChar(ch) == IF ch \in DOMAIN LowerTable THEN LowerTable[ch] ELSE ch

RECURSIVE Lower(_)
\* str.lower()
Lower(s) ==
    IF Len(s) = 0 THEN ""
    ELSE LowerChar(CharAt(s, 1)) \o Lower(SubSeq(s, 2, Len(s)))

\* `pat in s`
Contains(pat, s) ==
    \E i \in 0..(Len(s) - Len(pat)) : SubSeq(s, i + 1, i + Len(pat)) = pat

\* s.startswith(pre)
StartsWith(s, pre) ==
    Len(pre) <= Len(s) /\ SubSeq(s, 1, Len(pre)) = pre

DigitChars == {CharAt(Digits, i) : i \in 1..Len(Digits)}

IsDigitChar(ch) == ch \in DigitChars

\* str.isdigit()
IsDigit(s) ==
    Len(s) > 0 /\ \A i \in 1..Len(s) : IsDigitChar(CharAt(s, i))

RECURSIVE StrToInt(_)
\* int(s) for a string of decimal digits
StrToInt(s) ==
    IF Len(s) = 0 THEN 0
    ELSE 10 * StrToInt(SubSeq(s, 1, Len(s) - 1))
         + (IndexIn(Digits, CharAt(s, Len(s))) - 1)

RECURSIVE Split(_)
\* str.split(): the whitespace-delimited words, empty words dropped
Split(s) ==
    IF Len(s) = 0 THEN <<>>
    ELSE IF CharAt(s, 1) = " " THEN Split(SubSeq(s, 2, Len(s)))
    ELSE LET stops == {i \in 1..Len(s) : CharAt(s, i) = " "}
             end == IF stops = {} THEN Len(s) + 1
                    ELSE CHOOSE i \in stops : \A j \in stops : i <= j
         IN  <<SubSeq(s, 1, end - 1)>> \o Split(SubSeq(s, end, Len(s)))

Abs(x) == IF x < 0 THEN -x ELSE x

(***************************************************************************)
(* calculate_postal_distance                                               *)
(***************************************************************************)
\* the dict area_distances: sorted sector pair -> hop count
area_distances ==
    \* Central
    (<<1, 2>> :> 1) @@ (<<1, 3>> :> 2) @@ (<<1, 4>> :> 3) @@ (<<1, 5>> :> 4) @@
    (<<1, 6>> :> 5) @@ (<<1, 7>> :> 6) @@ (<<1, 8>> :> 7) @@ (<<1, 9>> :> 8) @@
    (<<1, 10>> :> 9) @@
    \* North
    (<<75, 76>> :> 1) @@ (<<75, 77>> :> 2) @@ (<<75, 78>> :> 3) @@
    (<<75, 79>> :> 4) @@ (<<79, 80>> :> 1) @@ (<<80, 81>> :> 1) @@
    (<<81, 82>> :> 1) @@
    \* South
    (<<10, 11>> :> 1) @@ (<<11, 12>> :> 1) @@ (<<12, 13>> :> 1) @@
    (<<13, 14>> :> 1) @@ (<<14, 15>> :> 1) @@ (<<15, 16>> :> 1) @@
    \* East
    (<<46, 47>> :> 1) @@ (<<47, 48>> :> 1) @@ (<<48, 49>> :> 1) @@
    (<<49, 50>> :> 1) @@ (<<50, 51>> :> 1) @@ (<<51, 52>> :> 1) @@
    \* West
    (<<60, 61>> :> 1) @@ (<<61, 62>> :> 1) @@ (<<62, 63>> :> 1) @@
    (<<63, 64>> :> 1) @@ (<<64, 65>> :> 1) @@ (<<65, 66>> :> 1) @@
    (<<66, 67>> :> 1) @@ (<<67, 68>> :> 1) @@ (<<68, 69>> :> 1) @@
    \* Northeast
    (<<53, 54>> :> 1) @@ (<<54, 55>> :> 1) @@ (<<55, 56>> :> 1) @@
    (<<56, 57>> :> 1) @@ (<<57, 58>> :> 1) @@ (<<58, 59>> :> 1)

\* tuple(sorted([area1, area2]))
area_pair(area1, area2) ==
    IF area1 <= area2 THEN <<area1, area2>> ELSE <<area2, area1>>

\* base_distance of a cross-sector pair, read with the key as given
base_distance_unsorted(area1, area2) ==
    IF <<area1, area2>> \in DOMAIN area_distances
    THEN area_distances[<<area1, area2>>] * 10000
    ELSE (area1 - area2) * 10000

\* base_distance of a cross-sector pair, every pair without an entry
\* counted as one hop
base_distance_one_hop(area1, area2) ==
    IF area_pair(area1, area2) \in DOMAIN area_distances
    THEN area_distances[area_pair(area1, area2)] * 10000
    ELSE 10000

\* base_distance of a cross-sector pair, an entry of the table counted as
\* one hop whatever its value
base_distance_flat_table(area1, area2) ==
    IF area_pair(area1, area2) \in DOMAIN area_distances
    THEN 10000
    ELSE Abs(area1 - area2) * 10000

\* base_distance of a cross-sector pair
base_distance(area1, area2) ==
    IF area_pair(area1, area2) \in DOMAIN area_distances
    THEN area_distances[area_pair(area1, area2)] * 10000
    ELSE Abs(area1 - area2) * 10000

\* sub_distance * 100
sub_distance(p1, p2) == Abs((p1 % 10000) - (p2 % 10000))

\* calculate_postal_distance(postal1, postal2) * 100, with the last four
\* digits compared in the same sector too
calculate_postal_distance_low_digits(p1, p2) ==
    base_distance(p1 \div 10000, p2 \div 10000) * 100 + sub_distance(p1, p2)

\* calculate_postal_distance(postal1, postal2) * 100
calculate_postal_distance(p1, p2) ==
    LET area1 == p1 \div 10000
        area2 == p2 \div 10000
    IN  IF area1 = area2
        THEN Abs(p1 - p2) * 100
        ELSE base_distance(area1, area2) * 100 + sub_distance(p1, p2)

(***************************************************************************)
(* DataFrames, boolean Series and the pandas operations search uses        *)
(***************************************************************************)
\* pd.DataFrame()
EmptyFrame == [cols |-> {}, rows |-> <<>>]

\* DataFrame.empty: no rows or no columns
IsEmpty(df) == Len(df.rows) = 0 \/ df.cols = {}

\* the index labels of a frame
Labels(df) == {df.rows[i].idx : i \in 1..Len(df.rows)}

\* row.get(col, '')
Cell(row, col) == IF col \in DOMAIN row.c THEN row.c[col] ELSE ""

\* dict.get(key, default)
Get(d, key, default) == IF key \in DOMAIN d THEN d[key] ELSE default

\* truth value of a str-or-None
Truthy(v) == v # None /\ v # ""

\* A pattern re.compile rejects: an opening parenthesis that is never closed.
\* The patterns tried hold no other regex metacharacter.
RegexInvalid(pat) == Contains("(", pat) /\ ~Contains(")", pat)

\* one cell of Series.str.contains(pat, case=False, na=False), valid pattern
StrContains(text, pat) == Contains(Lower(pat), Lower(text))

\* A boolean Series: the labels it has (dom) and those that are True (true).
\* pd.Series([False] * n)
FalseSeries(n) == [dom |-> 0..(n - 1), true |-> {}]

\* df[col].str.contains(pat, case=False, na=False)
ColContains(df, col, pat) ==
    [dom  |-> Labels(df),
     true |-> {df.rows[i].idx : i \in {j \in 1..Len(df.rows) :
                                    StrContains(df.rows[j].c[col], pat)}}]

\* left | right: pandas aligns the operands on the union of their labels; a
\* label the right operand lacks counts as False, a label the left operand
\* lacks gives NaN | x, which is NaN and ends as False.
SeriesOr(left, right) ==
    [dom  |-> left.dom \cup right.dom,
     true |-> left.true \cup (right.true \cap left.dom)]

\* Series.any()
SeriesAny(mask) == mask.true # {}

Ok(df) == [df |-> df, err |-> None]
Err(e) == [df |-> EmptyFrame, err |-> e]

\* df[mask]: the rows whose label is True; a frame label the mask lacks
\* raises IndexingError
Select(df, mask) ==
    IF ~(Labels(df) \subseteq mask.dom)
    THEN Err("IndexingError")
    ELSE Ok([cols |-> df.cols,
             rows |-> SelectSeq(df.rows, LAMBDA r : r.idx \in mask.true)])

RECURSIVE OrColumns(_, _, _, _)
\* the loop `for col in columns: if col in df.columns: mask = mask | contains`
OrColumns(mask, df, columns, pat) ==
    IF columns = <<>> THEN mask
    ELSE OrColumns(IF Head(columns) \in df.cols
                   THEN SeriesOr(mask, ColContains(df, Head(columns), pat))
                   ELSE mask,
                   df, Tail(columns), pat)

RECURSIVE OrPatterns(_, _, _, _)
\* the loop `for pat in patterns: if col in df.columns: mask = mask | contains`
OrPatterns(mask, df, col, patterns) ==
    IF patterns = <<>> THEN mask
    ELSE OrPatterns(IF col \in df.cols
                    THEN SeriesOr(mask, ColContains(df, col, Head(patterns)))
                    ELSE mask,
                    df, col, Tail(patterns))

\* df.head(n) as a list of rows
HeadRows(df, n) == SubSeq(df.rows, 1, IF Len(df.rows) < n THEN Len(df.rows) ELSE n)

(***************************************************************************)
(* Specialty stage (lines 224-271)                                         *)
(***************************************************************************)
specialty_corrections ==
    ("General Practitioner" :> "General Medicine") @@
    ("GP" :> "General Medicine") @@
    ("Family Medicine" :> "Family & Community Medicine") @@
    ("Paediatric" :> "Family & Community Medicine") @@
    ("Pediatric" :> "Family & Community Medicine") @@
    ("ENT" :> "Otolaryngology") @@
    ("Orthopaedic" :> "Orthopaedic Surgery") @@
    ("Orthopedic" :> "Orthopaedic Surgery")

fallback_specialties ==
    <<"Family & Community Medicine", "General Medicine",
      "Emergency Medicine", "Internal Medicine">>

search_columns == <<"Specialty", "Designation", "Services">>

\* the specialty after the correction table
CorrectedSpecialty(raw) ==
    IF raw \in DOMAIN specialty_corrections THEN specialty_corrections[raw] ELSE raw

IsPediatric(specialty_filter) == Lower(specialty_filter) \in {"paediatric", "pediatric"}

SomeColumn(df, columns) == \E i \in 1..Len(columns) : columns[i] \in df.cols

\* the specialty filter of search: the narrowed working set, or the exception
SpecialtyFilter(target, filtered, flt) ==
    LET raw == Get(flt, "Specialty", None)
        specialty_filter == CorrectedSpecialty(raw)
    IN  IF ~Truthy(raw) THEN Ok(filtered)
        ELSE IF IsPediatric(specialty_filter)
        THEN LET fallback_matches ==
                     OrPatterns(FalseSeries(Len(filtered.rows)), filtered,
                                "Specialty", fallback_specialties)
                 first == Select(filtered, fallback_matches)
             IN  IF first.err # None \/ ~IsEmpty(first.df) THEN first
                 ELSE Select(target,
                             OrColumns(FalseSeries(Len(target.rows)), target,
                                       search_columns, specialty_filter))
        ELSE IF RegexInvalid(specialty_filter) /\ SomeColumn(filtered, search_columns)
        THEN Err("re.error")
        ELSE Select(filtered,
                    OrColumns(FalseSeries(Len(filtered.rows)), filtered,
                              search_columns, specialty_filter))

(***************************************************************************)
(* Language stage (lines 273-278)                                          *)
(***************************************************************************)
LanguageFilter(filtered, flt) ==
    LET raw == Get(flt, "Languages", None)
        lang == IF Lower(raw) \in {"chinese", "mandarin"} THEN "Mandarin" ELSE raw
    IN  IF Truthy(raw) /\ "Languages" \in filtered.cols
        THEN IF RegexInvalid(lang) THEN Err("re.error")
             ELSE Select(filtered, ColContains(filtered, "Languages", lang))
        ELSE Ok(filtered)

(***************************************************************************)
(* Location stage (lines 280-354)                                          *)
(***************************************************************************)
RECURSIVE SpaceRun(_, _)
\* how many whitespace characters start at position p of s
SpaceRun(s, p) ==
    IF p <= Len(s) /\ CharAt(s, p) = " " THEN 1 + SpaceRun(s, p + 1) ELSE 0

\* does r'Singapore\s+(\d{6})' match at position i of address
PostalMatchAt(address, i) ==
    /\ i + 8 <= Len(address)
    /\ SubSeq(address, i, i + 8) = "Singapore"
    /\ LET w == SpaceRun(address, i + 9)
       IN  /\ w >= 1
           /\ i + 9 + w + 5 <= Len(address)
           /\ IsDigit(SubSeq(address, i + 9 + w, i + 9 + w + 5))

\* int(re.search(r'Singapore\s+(\d{6})', address).group(1)), -1 with no match
clinic_postal(address) ==
    LET starts == {i \in 1..Len(address) : PostalMatchAt(address, i)}
    IN  IF starts = {} THEN -1
        ELSE LET i == CHOOSE k \in starts : \A j \in starts : k <= j
                 w == SpaceRun(address, i + 9)
             IN  StrToInt(SubSeq(address, i + 9 + w, i + 9 + w + 5))

\* dict(row) with clinic_data['_distance'] = distance
WithDistance(cells, d) ==
    [k \in DOMAIN cells \cup {"_distance"} |->
        IF k = "_distance" THEN d ELSE cells[k]]

RECURSIVE clinic_distances(_, _)
\* the list the loop over filtered_df.iterrows() builds: one dict per row
\* whose address holds a postal code
clinic_distances(rows, query_postal) ==
    IF rows = <<>> THEN <<>>
    ELSE LET row == Head(rows)
             code == clinic_postal(Cell(row, "Address"))
             rest == clinic_distances(Tail(rows), query_postal)
         IN  IF code >= 0
             THEN <<WithDistance(row.c, calculate_postal_distance(query_postal, code))>>
                  \o rest
             ELSE rest

RECURSIVE SortByDistance(_)
\* list.sort(key=lambda x: x['_distance']): ascending and stable
SortByDistance(dicts) ==
    IF dicts = <<>> THEN <<>>
    ELSE LET last == dicts[Len(dicts)]
             front == SortByDistance(SubSeq(dicts, 1, Len(dicts) - 1))
             n == Cardinality({i \in 1..Len(front) :
                                 front[i]["_distance"] <= last["_distance"]})
         IN  SubSeq(front, 1, n) \o <<last>> \o SubSeq(front, n + 1, Len(front))

\* how many of the closest clinics the postal search keeps
PostalKeep == 20

\* pd.DataFrame(list of dicts): a fresh 0..n-1 index
FrameOfDicts(dicts) ==
    [cols |-> DOMAIN dicts[1],
     rows |-> [i \in 1..Len(dicts) |-> [idx |-> i - 1, c |-> dicts[i]]]]

\* postal code search (lines 284-310) without the sort of line 305
PostalSearch_unsorted(filtered, query_postal) ==
    LET found == clinic_distances(filtered.rows, query_postal)
        closest_clinics ==
            SubSeq(found, 1, IF Len(found) < PostalKeep THEN Len(found) ELSE PostalKeep)
    IN  IF found # <<>> THEN FrameOfDicts(closest_clinics) ELSE EmptyFrame

\* postal code search (lines 284-310)
PostalSearch(filtered, query_postal) ==
    LET found == clinic_distances(filtered.rows, query_postal)
        sorted == SortByDistance(found)
        closest_clinics ==
            SubSeq(sorted, 1, IF Len(sorted) < PostalKeep THEN Len(sorted) ELSE PostalKeep)
    IN  IF found # <<>> THEN FrameOfDicts(closest_clinics) ELSE EmptyFrame

nearby_areas ==
    ("bedok" :> <<"tampines", "pasir ris", "changi">>) @@
    ("tampines" :> <<"bedok", "pasir ris", "sengkang">>) @@
    ("yishun" :> <<"woodlands", "sembawang", "ang mo kio">>) @@
    ("woodlands" :> <<"yishun", "sembawang", "choa chu kang">>) @@
    ("jurong west" :> <<"jurong east", "choa chu kang", "bukit batok">>) @@
    ("sengkang" :> <<"punggol", "tampines", "serangoon">>) @@
    ("punggol" :> <<"sengkang", "tampines", "serangoon">>) @@
    ("ang mo kio" :> <<"yishun", "serangoon", "bishan">>) @@
    ("serangoon" :> <<"ang mo kio", "sengkang", "bishan">>)

\* location_matches after the Area and the Address match (lines 314-324)
DirectMatches(filtered, loc_key) ==
    OrColumns(FalseSeries(Len(filtered.rows)), filtered, <<"Area", "Address">>, loc_key)

\* location_matches after the neighbor fallback (lines 326-347)
LocationMatches(filtered, loc_key) ==
    LET direct == DirectMatches(filtered, loc_key)
    IN  IF ~SeriesAny(direct) /\ Lower(loc_key) \in DOMAIN nearby_areas
        THEN OrPatterns(direct, filtered, "Area", nearby_areas[Lower(loc_key)])
        ELSE direct

\* area name search of clinics (lines 311-349)
AreaSearch(filtered, loc_key) ==
    IF RegexInvalid(loc_key) /\ SomeColumn(filtered, <<"Area", "Address">>)
    THEN Err("re.error")
    ELSE Select(filtered, LocationMatches(filtered, loc_key))

\* address filter of the doctor search, applied to the copy of the whole
\* dataset instead of the working set
DoctorAreaSearch_target(filtered, loc_key) ==
    LET col_to_search == IF "Area" \in target_df.cols THEN "Area" ELSE "Address"
    IN  IF col_to_search \in target_df.cols
        THEN Select(target_df, ColContains(target_df, col_to_search, loc_key))
        ELSE Ok(filtered)

\* address filter of the doctor search (lines 350-354)
DoctorAreaSearch(filtered, loc_key) ==
    LET col_to_search == IF "Area" \in filtered.cols THEN "Area" ELSE "Address"
    IN  IF col_to_search \in filtered.cols
        THEN IF RegexInvalid(loc_key) THEN Err("re.error")
             ELSE Select(filtered, ColContains(filtered, col_to_search, loc_key))
        ELSE Ok(filtered)

IsPostalCode(loc_key) == IsDigit(loc_key) /\ Len(loc_key) = 6

\* the location filter of search: the new working set, or the exception
LocationFilter(filtered, intnt, flt) ==
    LET loc_key == Get(flt, "Area", None)
    IN  IF Truthy(loc_key) /\ intnt = "find_clinic"
        THEN IF IsPostalCode(loc_key)
             THEN Ok(PostalSearch(filtered, StrToInt(loc_key)))
             ELSE AreaSearch(filtered, loc_key)
        ELSE IF Truthy(loc_key) /\ intnt = "find_doctor"
        THEN DoctorAreaSearch(filtered, loc_key)
        ELSE Ok(filtered)

\* What the postal search leaves of the source dataset had it written
\* _distance into the rows it read.
source_after_attach_inplace(source, query_postal) ==
    [cols |-> source.cols \cup {"_distance"},
     rows |-> [i \in 1..Len(source.rows) |->
        LET row == source.rows[i]
            code == clinic_postal(Cell(row, "Address"))
        IN  [idx |-> row.idx,
             c |-> IF code >= 0
                   THEN WithDistance(row.c, calculate_postal_distance(query_postal, code))
                   ELSE row.c]]]

\* What the postal search leaves of the source dataset: _distance goes into
\* dict(row), a new dict, so the source keeps its rows (lines 299-301).
source_after_attach(source, query_postal) == source

(***************************************************************************)
(* The structured filter pipeline as one function (lines 221-354)          *)
(***************************************************************************)
FilterPipeline(df, intnt, flt) ==
    LET s1 == SpecialtyFilter(df, df, flt)
        s2 == IF s1.err # None THEN s1 ELSE LanguageFilter(s1.df, flt)
    IN  IF s2.err # None THEN s2 ELSE LocationFilter(s2.df, intnt, flt)

(***************************************************************************)
(* Ranking of clinics and the generic truncation (lines 356-392, 484-487)  *)
(***************************************************************************)
AreaTierCap == 10
AddressTierCap == 5
NearbyTierCap == 5
ClinicLimit == 15
DoctorLimit == 10

\* the three lists of the loop at lines 370-383
exact_area(rows, loc_key) ==
    SelectSeq(rows, LAMBDA row : Contains(Lower(loc_key), Lower(Cell(row, "Area"))))

exact_address(rows, loc_key) ==
    SelectSeq(rows, LAMBDA row :
        /\ ~Contains(Lower(loc_key), Lower(Cell(row, "Area")))
        /\ Contains(Lower(loc_key), Lower(Cell(row, "Address"))))

nearby_area(rows, loc_key) ==
    SelectSeq(rows, LAMBDA row :
        /\ ~Contains(Lower(loc_key), Lower(Cell(row, "Area")))
        /\ ~Contains(Lower(loc_key), Lower(Cell(row, "Address"))))

\* seq[:n]
Take(seq, n) == SubSeq(seq, 1, IF Len(seq) < n THEN Len(seq) ELSE n)

\* results of a clinic search with a location (line 386), every tier
\* cut at the cap of the first one
RankClinicByLocation_onecap(filtered, loc_key) ==
    Take(exact_area(filtered.rows, loc_key), AreaTierCap)
    \o Take(exact_address(filtered.rows, loc_key), AreaTierCap)
    \o Take(nearby_area(filtered.rows, loc_key), AreaTierCap)

\* results of a clinic search with a location, ranked among the rows whose
\* Name contains the keyword
RankClinicByLocation_named(filtered, loc_key) ==
    LET named == SelectSeq(filtered.rows,
                           LAMBDA row : Contains(Lower(keywords), Lower(Cell(row, "Name"))))
    IN  Take(exact_area(named, loc_key), AreaTierCap)
        \o Take(exact_address(named, loc_key), AddressTierCap)
        \o Take(nearby_area(named, loc_key), NearbyTierCap)

\* results of a clinic search with a location (line 386)
RankClinicByLocation(filtered, loc_key) ==
    Take(exact_area(filtered.rows, loc_key), AreaTierCap)
    \o Take(exact_address(filtered.rows, loc_key), AddressTierCap)
    \o Take(nearby_area(filtered.rows, loc_key), NearbyTierCap)

(***************************************************************************)
(* Scores of the name search.  A score is the exact fraction <<n, d>> in   *)
(* lowest terms; Python holds the same value as a float.                   *)
(***************************************************************************)
RECURSIVE GCD(_, _)
GCD(a, b) == IF b = 0 THEN a ELSE GCD(b, a % b)

\* n / d in lowest terms
Frac(n, d) == IF n = 0 THEN <<0, 1>> ELSE <<n \div GCD(n, d), d \div GCD(n, d)>>

\* the score n
Whole(n) == <<n, 1>>

\* a > b
Gt(a, b) == a[1] * b[2] > b[1] * a[2]

\* a * (n / d)
Times(a, n, d) == Frac(a[1] * n, a[2] * d)

\* a + b
Plus(a, b) == Frac(a[1] * b[2] + b[1] * a[2], a[2] * b[2])

\* max(a, b)
MaxScore(a, b) == IF Gt(b, a) THEN b ELSE a

\* max of a non-empty set of scores
MaxOf(S) == CHOOSE a \in S : \A b \in S : ~Gt(b, a)

(***************************************************************************)
(* rapidfuzz: fuzz.ratio, fuzz.partial_ratio, fuzz.token_sort_ratio,       *)
(* fuzz.token_set_ratio, utils.default_process and process.extract, as     *)
(* the library computes them                                               *)
(***************************************************************************)
RECURSIVE LcsRow(_, _, _, _)
\* one row of the longest-common-subsequence table: prev is the row of the
\* prefix of s1 before ch, cur the part of the new row built so far
LcsRow(prev, ch, s2, cur) ==
    IF Len(cur) = Len(s2) THEN cur
    ELSE LET j    == Len(cur) + 1
             diag == IF j = 1 THEN 0 ELSE prev[j - 1]
             left == IF j = 1 THEN 0 ELSE cur[j - 1]
             v    == IF CharAt(s2, j) = ch THEN diag + 1
                     ELSE IF prev[j] > left THEN prev[j] ELSE left
         IN  LcsRow(prev, ch, s2, Append(cur, v))

RECURSIVE LcsFrom(_, _, _, _)
\* the last row of the table, from the row of the first i - 1 characters of s1
LcsFrom(row, s1, i, s2) ==
    IF row = <<>> \/ i > Len(s1) THEN row
    ELSE LcsFrom(LcsRow(row, CharAt(s1, i), s2, <<>>), s1, i + 1, s2)

\* length of the longest common subsequence of s1 and s2
Lcs(s1, s2) ==
    IF Len(s1) = 0 \/ Len(s2) = 0 THEN 0
    ELSE LcsFrom([j \in 1..Len(s2) |-> 0], s1, 1, s2)[Len(s2)]

\* the Indel distance: insertions and deletions turning s1 into s2
indel_distance(s1, s2) == Len(s1) + Len(s2) - 2 * Lcs(s1, s2)

\* 100 - 100 * dist / lensum, 100 for an empty pair
norm_distance(dist, lensum) ==
    IF lensum > 0 THEN Frac(100 * lensum - 100 * dist, lensum) ELSE Whole(100)

\* fuzz.ratio(s1, s2): the normalized Indel similarity times 100
ratio(s1, s2) == norm_distance(indel_distance(s1, s2), Len(s1) + Len(s2))

\* the substrings of the longer string partial_ratio aligns the shorter one
\* with: prefixes shorter than it, windows of its length, suffixes
Windows(shorter, longer) ==
    {SubSeq(longer, 1, i) : i \in 1..(Len(shorter) - 1)}
    \cup {SubSeq(longer, i + 1, i + Len(shorter)) :
            i \in 0..(Len(longer) - Len(shorter) - 1)}
    \cup {SubSeq(longer, i + 1, Len(longer)) :
            i \in (Len(longer) - Len(shorter))..(Len(longer) - 1)}

\* the best alignment of a shorter string inside a longer one
partial_ratio_impl(shorter, longer) ==
    IF Len(shorter) = 0 THEN Whole(0)
    ELSE MaxOf({ratio(shorter, w) : w \in Windows(shorter, longer)})

\* fuzz.partial_ratio(s1, s2)
partial_ratio(s1, s2) ==
    IF Len(s1) = 0 /\ Len(s2) = 0 THEN Whole(100)
    ELSE IF Len(s1) < Len(s2) THEN partial_ratio_impl(s1, s2)
    ELSE IF Len(s2) < Len(s1) THEN partial_ratio_impl(s2, s1)
    ELSE MaxScore(partial_ratio_impl(s1, s2), partial_ratio_impl(s2, s1))

\* the characters of the names and keywords tried, in code point order
CodeOrder ==
    " '()-.0123456789ABCDEFGHIJKLMNOPQRSTUVWXYZabcdefghijklmnopqrstuvwxyz"

RECURSIVE StrLess(_, _)
\* a < b for Python strings
StrLess(a, b) ==
    IF Len(a) = 0 THEN Len(b) > 0
    ELSE IF Len(b) = 0 THEN FALSE
    ELSE IF CharAt(a, 1) = CharAt(b, 1)
    THEN StrLess(SubSeq(a, 2, Len(a)), SubSeq(b, 2, Len(b)))
    ELSE IndexIn(CodeOrder, CharAt(a, 1)) < IndexIn(CodeOrder, CharAt(b, 1))

RECURSIVE InsertWord(_, _)
InsertWord(sorted, w) ==
    IF sorted = <<>> THEN <<w>>
    ELSE IF StrLess(w, Head(sorted)) THEN <<w>> \o sorted
    ELSE <<Head(sorted)>> \o InsertWord(Tail(sorted), w)

RECURSIVE SortWords(_)
\* sorted(words)
SortWords(words) ==
    IF words = <<>> THEN <<>>
    ELSE InsertWord(SortWords(Tail(words)), Head(words))

RECURSIVE SortWordSet(_)
\* sorted(a set of words)
SortWordSet(S) ==
    IF S = {} THEN <<>>
    ELSE LET m == CHOOSE x \in S : \A y \in S : ~StrLess(y, x)
         IN  <<m>> \o SortWordSet(S \ {m})

RECURSIVE Join(_)
\* " ".join(words)
Join(words) ==
    IF words = <<>> THEN ""
    ELSE IF Len(words) = 1 THEN Head(words)
    ELSE Head(words) \o " " \o Join(Tail(words))

\* set(s.split())
TokenSet(s) == {Split(s)[i] : i \in 1..Len(Split(s))}

\* fuzz.token_sort_ratio(s1, s2)
token_sort_ratio(s1, s2) ==
    ratio(Join(SortWords(Split(s1))), Join(SortWords(Split(s2))))

\* fuzz.token_set_ratio(s1, s2)
token_set_ratio(s1, s2) ==
    LET tokens_a  == TokenSet(s1)
        tokens_b  == TokenSet(s2)
        intersect == tokens_a \cap tokens_b
        diff_ab   == Join(SortWordSet(tokens_a \ tokens_b))
        diff_ba   == Join(SortWordSet(tokens_b \ tokens_a))
        sect_len  == Len(Join(SortWordSet(intersect)))
        gap       == IF sect_len # 0 THEN 1 ELSE 0
        sect_ab_len == sect_len + gap + Len(diff_ab)
        sect_ba_len == sect_len + gap + Len(diff_ba)
        result    == norm_distance(indel_distance(diff_ab, diff_ba),
                                   sect_ab_len + sect_ba_len)
    IN  IF tokens_a = {} \/ tokens_b = {} THEN Whole(0)
        ELSE IF intersect # {} /\ (tokens_a \subseteq tokens_b
                                   \/ tokens_b \subseteq tokens_a)
        THEN Whole(100)
        ELSE IF sect_len = 0 THEN result
        ELSE MaxScore(MaxScore(result,
                 norm_distance(gap + Len(diff_ab), sect_len + sect_ab_len)),
                 norm_distance(gap + Len(diff_ba), sect_len + sect_ba_len))

RECURSIVE Strip(_)
\* str.strip() for blanks
Strip(s) ==
    IF Len(s) = 0 THEN s
    ELSE IF CharAt(s, 1) = " " THEN Strip(SubSeq(s, 2, Len(s)))
    ELSE IF CharAt(s, Len(s)) = " " THEN Strip(SubSeq(s, 1, Len(s) - 1))
    ELSE s

\* is ch a letter or a digit
IsAlnum(ch) ==
    IndexIn(UpperLetters, ch) > 0 \/ IndexIn(LowerLetters, ch) > 0 \/ IsDigitChar(ch)

RECURSIVE BlankNonAlnum(_)
BlankNonAlnum(s) ==
    IF Len(s) = 0 THEN ""
    ELSE (IF IsAlnum(CharAt(s, 1)) THEN CharAt(s, 1) ELSE " ")
         \o BlankNonAlnum(SubSeq(s, 2, Len(s)))

\* utils.default_process: non-alphanumerics to blanks, lower case, strip
default_process(s) == Strip(Lower(BlankNonAlnum(s)))

\* the preprocessing process.extract applies when called without a
\* processor: none from rapidfuzz 3.0 on, default_process before
Preprocess(proc, s) == IF proc = "default_process" THEN default_process(s) ELSE s

\* the scorer named by the search
Score(scorer, s1, s2) ==
    IF scorer = "token_set" THEN token_set_ratio(s1, s2)
    ELSE IF scorer = "partial" THEN partial_ratio(s1, s2)
    ELSE token_sort_ratio(s1, s2)

RECURSIVE InsertMatch(_, _)
\* x put after every match whose score is not below its own
InsertMatch(sorted, x) ==
    IF sorted = <<>> THEN <<x>>
    ELSE IF Gt(x.score, Head(sorted).score) THEN <<x>> \o sorted
    ELSE <<Head(sorted)>> \o InsertMatch(Tail(sorted), x)

RECURSIVE SortByScore(_)
\* sorted(matches, key=score, reverse=True): ties keep their order
SortByScore(matches) ==
    IF matches = <<>> THEN <<>>
    ELSE InsertMatch(SortByScore(SubSeq(matches, 1, Len(matches) - 1)),
                     matches[Len(matches)])

\* the limit the search gives process.extract
ExtractLimit == 20

\* process.extract(query, names, limit=20, scorer=scorer): the (name, score,
\* list index) of the best 20, best first, ties by list index
extract(query, names, scorer, proc) ==
    Take(SortByScore([i \in 1..Len(names) |->
            [name  |-> names[i],
             score |-> Score(scorer, Preprocess(proc, query),
                             Preprocess(proc, names[i])),
             idx   |-> i - 1]]),
         ExtractLimit)

(***************************************************************************)
(* The name search of the doctor branch (lines 392-483)                    *)
(***************************************************************************)
\* least raw score a strategy's match needs to enter the fusion (line 432)
FusionFloor == 25

\* least word score every keyword word needs in strategy 4 (line 424)
WordFloor == 35

\* least fused score of a fuzzy match that may fill up the exact ones (line 469)
HighQuality == 60

\* most fuzzy matches added to fewer than ExactEnough exact ones (line 470)
FuzzyFill == 3

\* exact matches from which no fuzzy match is added (line 465)
ExactEnough == 3

\* most records the scored selection returns (lines 466, 472)
NameLimit == 5

\* most records the substring scan returns (line 482)
ScanLimit == 10

\* filtered_df['Name'].tolist()
NamesOf(filtered) == [i \in 1..Len(filtered.rows) |-> filtered.rows[i].c["Name"]]

\* lines 413-420: the best score of keyword word kw over the words of a name
best_word_score(kw, name_words) ==
    IF Len(kw) < 3 \/ name_words = <<>> THEN Whole(0)
    ELSE MaxOf({Whole(0)} \cup
               {IF Contains(kw, name_words[j]) \/ Contains(name_words[j], kw)
                THEN Whole(80)
                ELSE ratio(kw, name_words[j]) : j \in 1..Len(name_words)})

\* lines 411-421: one best score per keyword word
word_match_scores(keywords_words, name_words) ==
    [k \in 1..Len(keywords_words) |->
        best_word_score(keywords_words[k], name_words)]

RECURSIVE SumScores(_)
SumScores(scores) ==
    IF scores = <<>> THEN Whole(0)
    ELSE Plus(Head(scores), SumScores(Tail(scores)))

\* lines 408-421: the word scores of the i-th name
name_word_scores(kws, names, i) ==
    word_match_scores(Split(Lower(kws)), Split(Lower(names[i])))

\* line 424: every keyword word has a score above 35
Qualifies(scores) ==
    /\ Len(scores) > 0
    /\ \A k \in 1..Len(scores) : Gt(scores[k], Whole(WordFloor))

RECURSIVE multi_word_from(_, _, _)
\* lines 408-426 from the i-th name on
multi_word_from(kws, names, i) ==
    IF i > Len(names) THEN <<>>
    ELSE LET scores == name_word_scores(kws, names, i)
         IN  (IF Qualifies(scores)
              THEN <<[name  |-> names[i],
                      score |-> Times(SumScores(scores), 1, Len(scores)),
                      idx   |-> i - 1]>>
              ELSE <<>>)
             \o multi_word_from(kws, names, i + 1)

\* strategy 4 (lines 405-426): the names every keyword word matches with a
\* score above 35, scored by the mean of the word scores
multi_word_matches(kws, names) == multi_word_from(kws, names, 1)

\* lines 434-440: the weight a strategy's raw score gets
weighted_score(strategy_name, score) ==
    IF strategy_name = "multi_word" /\ Gt(score, Whole(50)) THEN Times(score, 13, 10)
    ELSE IF strategy_name = "partial" /\ Gt(score, Whole(80)) THEN Times(score, 12, 10)
    ELSE IF strategy_name = "token_set" /\ Gt(score, Whole(90)) THEN Times(score, 11, 10)
    ELSE score

\* position of name among the fused entries when every match gets an entry
\* of its own
PositionOf_per_row(all_matches, name) == 0

\* position of name among the fused entries, 0 when absent
PositionOf(all_matches, name) ==
    IF \E i \in 1..Len(all_matches) : all_matches[i].name = name
    THEN CHOOSE i \in 1..Len(all_matches) : all_matches[i].name = name
    ELSE 0

\* lines 432-443 with the first entry of a name kept whatever comes later
FuseOne_keep_first(all_matches, strategy_name, m) ==
    IF ~Gt(m.score, Whole(FusionFloor)) \/ PositionOf(all_matches, m.name) # 0
    THEN all_matches
    ELSE Append(all_matches, [name |-> m.name,
                              score |-> weighted_score(strategy_name, m.score),
                              idx |-> m.idx])

\* lines 432-443: one match of one strategy enters the dict all_matches
FuseOne(all_matches, strategy_name, m) ==
    LET w == weighted_score(strategy_name, m.score)
        p == PositionOf(all_matches, m.name)
        e == [name |-> m.name, score |-> w, idx |-> m.idx]
    IN  IF ~Gt(m.score, Whole(FusionFloor)) THEN all_matches
        ELSE IF p = 0 THEN Append(all_matches, e)
        ELSE IF Gt(w, all_matches[p].score) THEN [all_matches EXCEPT ![p] = e]
        ELSE all_matches

\* TRUE, and v is computed when it is asked: a loop's round is computed
\* before its next round starts
Evaluated(v) == v = v

RECURSIVE FuseAll(_, _, _)
\* line 431: the matches of one strategy, in order
FuseAll(all_matches, strategy_name, matches) ==
    IF matches = <<>> THEN all_matches
    ELSE LET fused == FuseOne(all_matches, strategy_name, Head(matches))
         IN  IF Evaluated(fused)
             THEN FuseAll(fused, strategy_name, Tail(matches))
             ELSE fused

\* lines 397-446: the four strategies fused, best weighted score first;
\* the dict keeps one entry per name, in order of first insertion
FusedMatches(kws, names, proc) ==
    LET s1 == FuseAll(<<>>, "token_set", extract(kws, names, "token_set", proc))
        s2 == FuseAll(s1, "partial", extract(kws, names, "partial", proc))
        s3 == FuseAll(s2, "token_sort", extract(kws, names, "token_sort", proc))
        s4 == FuseAll(s3, "multi_word", multi_word_matches(kws, names))
    IN  SortByScore(s4)

\* line 458: some word of the name equals the keyword or starts with it
IsExactName(name, kws) ==
    \E i \in 1..Len(Split(Lower(name))) : StartsWith(Split(Lower(name))[i], Lower(kws))

\* lines 449-461
exact_matches(sorted, kws) == SelectSeq(sorted, LAMBDA m : IsExactName(m.name, kws))

fuzzy_matches(sorted, kws) == SelectSeq(sorted, LAMBDA m : ~IsExactName(m.name, kws))

\* lines 465-470, with the fuzzy matches added whatever the number of
\* exact ones
final_matches_always_fill(exact, fuzzy) ==
    exact \o Take(SelectSeq(fuzzy, LAMBDA m : Gt(m.score, Whole(HighQuality))),
                  FuzzyFill)

\* lines 465-470
final_matches(exact, fuzzy) ==
    IF Len(exact) >= ExactEnough THEN Take(exact, NameLimit)
    ELSE exact \o Take(SelectSeq(fuzzy, LAMBDA m : Gt(m.score, Whole(HighQuality))),
                       FuzzyFill)

\* lines 472-474: the rows of the selected matches
ScoredResults(filtered, kws, sorted) ==
    LET final == Take(final_matches(exact_matches(sorted, kws),
                                    fuzzy_matches(sorted, kws)), NameLimit)
    IN  [k \in 1..Len(final) |-> filtered.rows[final[k].idx + 1]]

\* lines 478-483 without the break: every row whose name contains the keyword
substring_scan_uncapped(filtered, kws) ==
    SelectSeq(filtered.rows, LAMBDA row : Contains(Lower(kws), Lower(row.c["Name"])))

\* lines 478-483: the first 10 rows whose name contains the keyword
substring_scan(filtered, kws) ==
    Take(SelectSeq(filtered.rows,
                   LAMBDA row : Contains(Lower(kws), Lower(row.c["Name"]))),
         ScanLimit)

\* lines 449-483: the scored selection, or the substring scan when it is empty
NameSelection(filtered, kws, sorted) ==
    LET scored == ScoredResults(filtered, kws, sorted)
    IN  IF scored # <<>> THEN scored ELSE substring_scan(filtered, kws)

(***************************************************************************)
(* search as a state machine: entry, three filter stages, ranking          *)
(***************************************************************************)
\* `plan is None`: an empty dict counts as a plan
PlanFalsy_none_only(p) == p = NoneObj

\* `not plan`
PlanFalsy(p) == p = NoneObj \/ DOMAIN p = {}

\* no call of calculate_postal_distance is in progress
PostalUnused == postal1 = 0 /\ postal2 = 0 /\ distance = -1

\* lines 196-221: the loaded-data check, think(), the plan's fields and the
\* copy of the dataset the intent selects; p is what think() returns
Search(p) ==
    /\ pc = "search"
    /\ plan' = p
    /\ IF df_c = NoneObj \/ df_d = NoneObj
       THEN /\ pc' = "done"
            /\ meta' = [error |-> "data files not loaded"]
            /\ UNCHANGED <<intent, filters, keywords, target_df, filtered_df>>
       ELSE IF PlanFalsy(p)
       THEN /\ pc' = "done"
            /\ meta' = [message |-> "API not connected or think failed"]
            /\ UNCHANGED <<intent, filters, keywords, target_df, filtered_df>>
       ELSE /\ pc' = "specialty"
            /\ intent' = Get(p, "intent", "find_doctor")
            /\ filters' = Get(p, "filters", <<>>)
            /\ keywords' = Get(p, "keywords", "")
            /\ target_df' = IF intent' = "find_clinic" THEN df_c ELSE df_d
            /\ filtered_df' = target_df'
            /\ UNCHANGED meta
    /\ UNCHANGED <<df_c, df_d, processor, sorted_matches, results, raised, postal1, postal2, distance>>

\* a filter stage ends: the working set is replaced, or the exception escapes
StageEnds(r, next) ==
    IF r.err # None
    THEN /\ raised' = r.err
         /\ pc' = "done"
         /\ UNCHANGED filtered_df
    ELSE /\ filtered_df' = r.df
         /\ pc' = next
         /\ UNCHANGED raised

SpecialtyStage ==
    /\ pc = "specialty"
    /\ StageEnds(SpecialtyFilter(target_df, filtered_df, filters), "language")
    /\ UNCHANGED <<df_c, df_d, processor, sorted_matches, plan, intent, filters, keywords,
                   target_df, results, meta, postal1, postal2, distance>>

LanguageStage ==
    /\ pc = "language"
    /\ StageEnds(LanguageFilter(filtered_df, filters), "location")
    /\ UNCHANGED <<df_c, df_d, processor, sorted_matches, plan, intent, filters, keywords,
                   target_df, results, meta, postal1, postal2, distance>>

\* does the location stage take the postal code path
OnPostalPath ==
    /\ intent = "find_clinic"
    /\ Truthy(Get(filters, "Area", None))
    /\ IsPostalCode(Get(filters, "Area", None))

LocationStage ==
    /\ pc = "location"
    /\ StageEnds(LocationFilter(filtered_df, intent, filters), "rank")
    /\ df_c' = IF OnPostalPath
               THEN source_after_attach(df_c, StrToInt(filters["Area"]))
               ELSE df_c
    /\ UNCHANGED <<df_d, processor, sorted_matches, plan, intent, filters, keywords,
                   target_df, results, meta, postal1, postal2, distance>>

\* search returns results and the plan (line 489)
Return(res) ==
    /\ results' = res
    /\ meta' = plan
    /\ pc' = "done"
    /\ UNCHANGED <<df_c, df_d, processor, sorted_matches, plan, intent, filters, keywords,
                   target_df, filtered_df, raised, postal1, postal2, distance>>

\* line 361: nothing is left to rank
RankNothing ==
    /\ pc = "rank"
    /\ IsEmpty(filtered_df)
    /\ Return(<<>>)

\* lines 363-389: clinics, by location tier or the first 15
RankClinic ==
    /\ pc = "rank"
    /\ ~IsEmpty(filtered_df)
    /\ intent = "find_clinic"
    /\ Return(IF Truthy(Get(filters, "Area", None))
              THEN RankClinicByLocation(filtered_df, filters["Area"])
              ELSE HeadRows(filtered_df, ClinicLimit))

\* does the doctor branch run the name search (line 392)
IsNameSearch == Truthy(keywords) /\ Len(keywords) > 1

\* lines 484-487: no name to search for
RankGeneric ==
    /\ pc = "rank"
    /\ ~IsEmpty(filtered_df)
    /\ intent # "find_clinic"
    /\ ~IsNameSearch
    /\ Return(HeadRows(filtered_df,
                       IF intent = "find_doctor" THEN DoctorLimit ELSE ClinicLimit))

\* lines 392-446: the four strategies and their fusion; a working set
\* without a Name column raises KeyError at line 394
RankByName ==
    /\ pc = "rank"
    /\ ~IsEmpty(filtered_df)
    /\ intent # "find_clinic"
    /\ IsNameSearch
    /\ IF "Name" \in filtered_df.cols
       THEN /\ sorted_matches' = FusedMatches(keywords, NamesOf(filtered_df), processor)
            /\ pc' = "select"
            /\ UNCHANGED raised
       ELSE /\ raised' = "KeyError"
            /\ pc' = "done"
            /\ UNCHANGED sorted_matches
    /\ UNCHANGED <<df_c, df_d, processor, plan, intent, filters, keywords,
                   target_df, filtered_df, results, meta,
                   postal1, postal2, distance>>

\* lines 449-489: the selection among the fused matches, the substring scan
\* when it is empty, and the return
SelectByName ==
    /\ pc = "select"
    /\ Return(NameSelection(filtered_df, keywords, sorted_matches))

(***************************************************************************)
(* Datasets and plans tried                                                *)
(***************************************************************************)
\* longest run of rows of one kind in a dataset
MaxRun == 11

\* run lengths tried
RunLengths == {0, 2, MaxRun}

\* str(n) for 0 <= n <= 99
IntToStr(n) ==
    IF n < 10 THEN CharAt(Digits, n + 1)
    ELSE CharAt(Digits, (n \div 10) + 1) \o CharAt(Digits, (n % 10) + 1)

\* the Languages cell of the n-th row of a run
LanguagesOf(n) == IF n % 2 = 1 THEN "English" ELSE "English, Mandarin"

\* a loaded dataset: the default 0..n-1 index, the given columns
Frame(cells, cols) ==
    [cols |-> cols,
     rows |-> [i \in 1..Len(cells) |->
                 [idx |-> i - 1, c |-> [k \in cols |-> cells[i][k]]]]]

\* Area and Address of the kinds of clinic tried
ClinicKinds ==
    ("A" :> <<"Bedok", "1 Bedok Rd Singapore 460001">>) @@
    ("B" :> <<"East", "2 Bedok Ave Singapore 469002">>) @@
    ("T" :> <<"Tampines", "3 Elm St Singapore 520003">>) @@
    ("M" :> <<"Bedok Tampines", "5 Changi Rd Singapore 486005">>) @@
    ("J" :> <<"Jurong West", "Blk 526 Singapore 640526">>) @@
    ("K" :> <<"Jurong West", "Blk 651 Singapore  641651">>) @@
    ("X" :> <<"Jurong West", "Singapore 600123 and Singapore 641652">>) @@
    ("N" :> <<"Yishun", "Yishun Mall">>)

\* one loaded clinic row: all cells are strings
ClinicCells(kind, run, n) ==
    [Name |-> "Clinic " \o kind \o IntToStr(run) \o "-" \o IntToStr(n),
     Address |-> ClinicKinds[kind][2],
     Area |-> ClinicKinds[kind][1],
     Contact |-> "",
     Languages |-> LanguagesOf(n)]

\* the run-th run of a dataset: n clinic rows of one kind
ClinicRun(kind, run, n) == [i \in 1..n |-> ClinicCells(kind, run, i)]

\* the column sets a loaded clinic file may come with
ClinicColumnSets ==
    {{"Name", "Address", "Area", "Contact"},
     {"Name", "Address", "Area", "Contact", "Languages"},
     {"Name", "Contact", "Languages"}}

ClinicDatasets ==
    {Frame(ClinicRun(k1, 1, n1) \o ClinicRun(k2, 2, n2), cols) :
        k1 \in DOMAIN ClinicKinds, n1 \in RunLengths,
        k2 \in DOMAIN ClinicKinds, n2 \in RunLengths,
        cols \in ClinicColumnSets}

\* Specialty, Designation, Services and Area of the kinds of provider tried
ProviderKinds ==
    ("G" :> <<"General Medicine", "Consultant", "", "Bedok">>) @@
    ("C" :> <<"Cardiology", "Senior Consultant", "", "Tampines">>) @@
    ("P" :> <<"Paediatric Medicine", "Consultant", "", "Bedok">>) @@
    ("S" :> <<"Surgery", "Consultant", "Paediatric Surgery", "Yishun">>) @@
    ("D" :> <<"Surgery", "Head, Emergency Medicine", "", "Bedok North">>)

\* one loaded provider row
ProviderCells(kind, run, n) ==
    [Name |-> "Dr " \o kind \o IntToStr(run) \o "-" \o IntToStr(n),
     Specialty |-> ProviderKinds[kind][1],
     Languages |-> LanguagesOf(n),
     Services |-> ProviderKinds[kind][3],
     Qualifications |-> "",
     Designation |-> ProviderKinds[kind][2],
     Area |-> ProviderKinds[kind][4],
     Address |-> "1 " \o ProviderKinds[kind][4] \o " Rd"]

\* the run-th run of a dataset: n provider rows of one kind
ProviderRun(kind, run, n) == [i \in 1..n |-> ProviderCells(kind, run, i)]

ProviderColumns ==
    {"Name", "Specialty", "Languages", "Services", "Qualifications", "Designation"}

\* the column sets a loaded provider file may come with
ProviderColumnSets ==
    {ProviderColumns,
     ProviderColumns \cup {"Area"},
     ProviderColumns \cup {"Address"},
     {"Name", "Qualifications"}}

ProviderDatasets ==
    {Frame(ProviderRun(k1, 1, n1) \o ProviderRun(k2, 2, n2), cols) :
        k1 \in DOMAIN ProviderKinds, n1 \in RunLengths,
        k2 \in DOMAIN ProviderKinds, n2 \in RunLengths,
        cols \in ProviderColumnSets}

\* a small provider dataset for the searches that target clinics
FewProviders == Frame(ProviderRun("G", 1, 1), ProviderColumns)

\* a small clinic dataset for the searches that target providers
FewClinics == Frame(ClinicRun("A", 1, 1), {"Name", "Address", "Area", "Contact"})

\* the plans tried for clinic searches
ClinicPlans ==
    {[intent |-> "find_clinic", keywords |-> "", filters |-> f] :
        f \in {<<>>,
               [Area |-> "Bedok"],
               [Area |-> "641652"],
               [Area |-> "(Bedok"],
               [Area |-> "Punggol"],
               [Area |-> "Changi"],
               [Languages |-> "chinese"],
               [Languages |-> "chinese", Area |-> "bedok"],
               [Languages |-> "chinese", Area |-> "641652"],
               [Specialty |-> "General Medicine", Area |-> "Bedok"]}}
    \cup {[intent |-> "find_clinic", keywords |-> "A1-2", filters |-> f] :
            f \in {<<>>, [Area |-> "Bedok"]}}

\* the plans tried for provider searches without a name
ProviderPlans ==
    {[intent |-> "find_doctor", keywords |-> "", filters |-> f] :
        f \in {[Specialty |-> "GP"],
               [Specialty |-> "paediatric"],
               [Specialty |-> "Paediatric", Languages |-> "", Area |-> ""],
               [Specialty |-> "PEDIATRIC", Languages |-> "Mandarin"],
               [Specialty |-> "Cardiology", Languages |-> "chinese", Area |-> "Bedok"],
               [Specialty |-> "(GP"],
               [Languages |-> "English", Area |-> "bedok"]}}
    \cup {[keywords |-> "x"],
          [intent |-> "find_hospital", filters |-> [Area |-> "Bedok"]],
          <<>>,
          NoneObj}

\* the variables search has not set yet
SearchNotStarted ==
    /\ pc = "search"
    /\ plan = NoneObj /\ intent = "" /\ filters = <<>> /\ keywords = ""
    /\ target_df = NoneObj /\ filtered_df = NoneObj
    /\ results = <<>> /\ meta = NoneObj /\ raised = None
    /\ sorted_matches = <<>>
    /\ PostalUnused

\* the datasets were loaded, or load_data returned (None, None)
Init ==
    /\ \/ df_c \in ClinicDatasets /\ df_d = FewProviders
       \/ df_c = FewClinics /\ df_d \in ProviderDatasets
       \/ df_c = NoneObj /\ df_d = NoneObj
    /\ processor = None
    /\ SearchNotStarted

\* think() returns one of the plans tried for the dataset at hand
SearchGeneric ==
    \E p \in ClinicPlans \cup ProviderPlans :
        /\ p \in ClinicPlans => df_d = FewProviders
        /\ p \in ProviderPlans => df_c = FewClinics \/ df_c = NoneObj
        /\ Search(p)

Next ==
    \/ SearchGeneric
    \/ SpecialtyStage
    \/ LanguageStage
    \/ LocationStage
    \/ RankNothing
    \/ RankClinic
    \/ RankGeneric

Spec == Init /\ [][Next]_vars

(***************************************************************************)
(* Datasets and plans tried for the name search                            *)
(***************************************************************************)
\* the given name of the n-th row of a run
Given(n) == CharAt(UpperLetters, n) \o "im"

\* the same, as a file in capitals spells it
GivenCapitals(n) == CharAt(UpperLetters, n) \o "IM"

\* longest run of names of one kind in a dataset
MaxNames == 6

\* run lengths tried for names
NameRunLengths == {0, 2, MaxNames}

\* the kinds of provider name tried
NameKinds == {"E", "M", "U", "D"}

\* the name of the n-th row of a run of one kind
NameOf(kind, n) ==
    IF kind = "E" THEN "Tan " \o Given(n)
    ELSE IF kind = "M" THEN (IF n % 2 = 1 THEN "Tanya " ELSE "Stan ") \o Given(n)
    ELSE IF kind = "U" THEN "NG " \o GivenCapitals(n)
    ELSE "Tan Ah Kow"

\* one loaded provider row of the name datasets
NamedCells(kind, n) ==
    [Name |-> NameOf(kind, n),
     Specialty |-> "General Medicine",
     Languages |-> LanguagesOf(n),
     Services |-> "",
     Qualifications |-> "MBBS",
     Designation |-> "Consultant"]

NamedRun(kind, n) == [i \in 1..n |-> NamedCells(kind, i)]

\* the column sets a loaded provider file may come with: with and without
\* a column whose header holds "name"
NamedColumnSets == {ProviderColumns, {"Specialty", "Qualifications"}}

NamedDatasets ==
    {Frame(NamedRun(k1, n1) \o NamedRun(k2, n2), cols) :
        k1 \in NameKinds, n1 \in NameRunLengths,
        k2 \in NameKinds, n2 \in NameRunLengths,
        cols \in NamedColumnSets}

\* the plans tried for searches by name
NamePlans ==
    {[intent |-> "find_doctor", keywords |-> k, filters |-> <<>>] :
        k \in {"tan", "ng", "tan bim"}}
    \cup {[intent |-> "find_doctor", keywords |-> "Tan",
           filters |-> [Languages |-> "chinese"]],
          [intent |-> "find_hospital", keywords |-> "Lim"]}

\* the datasets were loaded; either release of rapidfuzz is installed
InitName ==
    /\ df_c = FewClinics
    /\ df_d \in NamedDatasets
    /\ processor \in {None, "default_process"}
    /\ SearchNotStarted

\* think() returns one of the plans tried for searches by name
SearchByName == \E p \in NamePlans : Search(p)

NextName ==
    \/ SearchByName
    \/ SpecialtyStage
    \/ LanguageStage
    \/ LocationStage
    \/ RankNothing
    \/ RankByName
    \/ SelectByName

SpecName == InitName /\ [][NextName]_vars

(***************************************************************************)
(* Inputs of the distance heuristic                                        *)
(***************************************************************************)
\* every sector a 6-digit code can have
PostalSectors == 0..99

\* the last four digits tried in each sector
PostalLows == {0, 526, 652, 9999}

\* the 6-digit postal codes tried, as int() reads them
PostalCodes == {s * 10000 + l : s \in PostalSectors, l \in PostalLows}

\* the search variables while only the distance heuristic runs
SearchUnused ==
    /\ df_c = NoneObj /\ df_d = NoneObj /\ processor = None
    /\ plan = NoneObj /\ intent = "" /\ filters = <<>> /\ keywords = ""
    /\ target_df = NoneObj /\ filtered_df = NoneObj
    /\ results = <<>> /\ meta = NoneObj /\ raised = None
    /\ sorted_matches = <<>>

InitPostal ==
    /\ SearchUnused
    /\ pc = "postal_call"
    /\ PostalUnused

\* one call of calculate_postal_distance
CallPostalDistance ==
    /\ pc = "postal_call"
    /\ \E a \in PostalCodes, b \in PostalCodes :
        /\ postal1' = a
        /\ postal2' = b
        /\ distance' = calculate_postal_distance(a, b)
    /\ pc' = "postal_return"
    /\ UNCHANGED <<df_c, df_d, processor, sorted_matches, plan, intent, filters, keywords,
                   target_df, filtered_df, results, meta, raised>>

NextPostal == CallPostalDistance

SpecPostal == InitPostal /\ [][NextPostal]_vars

(***************************************************************************)
(* Claims                                                                  *)
(***************************************************************************)
\* C3: calculate_postal_distance is symmetric: the value returned for
\* (postal1, postal2) is the value the function gives for (postal2, postal1),
\* in the same-sector, adjacency-table and sector-gap branches.
C3_Symmetric ==
    pc = "postal_return" =>
        distance = calculate_postal_distance(postal2, postal1)

\* C3 witness: a returned call on the adjacency-table branch whose sectors
\* arrive in descending order, so the key had to be sorted.
C3_Witness ==
    /\ pc = "postal_return"
    /\ postal1 \div 10000 > postal2 \div 10000
    /\ area_pair(postal1 \div 10000, postal2 \div 10000) \in DOMAIN area_distances
    /\ postal1 % 10000 # postal2 % 10000
    /\ distance = calculate_postal_distance(postal2, postal1)

\* search went through the name search and returned through line 489
NameSearchReturned ==
    /\ pc = "done" /\ raised = None /\ meta = plan
    /\ ~IsEmpty(filtered_df)
    /\ intent # "find_clinic"
    /\ IsNameSearch

\* the scored selection of the search's working set
Selected == ScoredResults(filtered_df, keywords, sorted_matches)

\* C1 (as claimed): the name search never returns more than 5 records, on
\* the scored path and on the substring scan path.
C1_AtMostFive ==
    NameSearchReturned => Len(results) <= 5

\* C1 (amended): the name search returns at most 5 records when the scored
\* selection is not empty, and at most 10 records of the substring scan
\* when it is.
C1_FiveScoredTenScanned ==
    NameSearchReturned =>
        IF Selected # <<>> THEN Len(results) <= 5 ELSE Len(results) <= 10

\* C1 witness: the scored selection was empty, more than 10 rows of the
\* working set contain the keyword, and the scan returned 10 of them.
C1_Witness ==
    /\ NameSearchReturned
    /\ Selected = <<>>
    /\ Cardinality({i \in 1..Len(filtered_df.rows) :
            Contains(Lower(keywords), Lower(filtered_df.rows[i].c["Name"]))}) > 10
    /\ Len(results) = 10

\* C2: when at least 3 fused candidates are in the exact tier, every
\* returned record is an exact-tier candidate: some word of its name equals
\* or starts with the keyword, case-insensitively.
C2_ExactOnly ==
    (NameSearchReturned /\ Len(exact_matches(sorted_matches, keywords)) >= 3) =>
        \A i \in 1..Len(results) :
            \E w \in TokenSet(Lower(results[i].c["Name"])) :
                StartsWith(w, Lower(keywords))

\* C2 witness: 3 or 4 fused candidates are in the exact tier, a fuzzy-tier
\* candidate has a higher fused score than all of them and one above 60,
\* and the search returned exactly the exact-tier candidates.
C2_Witness ==
    /\ NameSearchReturned
    /\ Len(exact_matches(sorted_matches, keywords)) \in {3, 4}
    /\ \E f \in 1..Len(fuzzy_matches(sorted_matches, keywords)) :
           /\ Gt(fuzzy_matches(sorted_matches, keywords)[f].score, Whole(60))
           /\ \A e \in 1..Len(exact_matches(sorted_matches, keywords)) :
                  Gt(fuzzy_matches(sorted_matches, keywords)[f].score,
                     exact_matches(sorted_matches, keywords)[e].score)
    /\ Len(results) = Len(exact_matches(sorted_matches, keywords))

\* C8 (as claimed): no exception escapes search: whenever search is over,
\* it has returned a result sequence and no exception was raised.
C8_NoExceptionEscapes ==
    pc = "done" => raised = None

\* the cells of the rows of a frame, in order
CellsOf(df) == [i \in 1..Len(df.rows) |-> df.rows[i].c]

\* the rows of a frame loaded as a dataset of their own
Reload(df) ==
    [cols |-> df.cols,
     rows |-> [i \in 1..Len(df.rows) |-> [idx |-> i - 1, c |-> df.rows[i].c]]]

\* a row's cells without the ranking metadata
SourceCells(cells) == [k \in DOMAIN cells \ {"_distance"} |-> cells[k]]

\* the rows of a frame, each named by its source cells
RowSet(df) == {SourceCells(df.rows[i].c) : i \in 1..Len(df.rows)}

\* search returned a value through line 489
Returned == pc = "done" /\ raised = None /\ meta = plan

\* the location filter of the plan
LocKey == Get(filters, "Area", None)

\* C4 (as claimed): after a clinic search by 6-digit postal code the returned
\* rows are in non-decreasing order of _distance.
C4_OrderedByDistance ==
    (Returned /\ OnPostalPath) =>
        \A i, j \in 1..Len(results) :
            i < j => results[i].c["_distance"] <= results[j].c["_distance"]

\* the tier the ranker puts a row in: 1 Area match, 2 Address match, 3 nearby
Tier(row) ==
    IF Contains(Lower(LocKey), Lower(Cell(row, "Area"))) THEN 1
    ELSE IF Contains(Lower(LocKey), Lower(Cell(row, "Address"))) THEN 2
    ELSE 3

\* the rows of the working set that fall in tier t, in working-set order
TierRows(t) == SelectSeq(filtered_df.rows, LAMBDA row : Tier(row) = t)

\* C5: a clinic search with a location returns the first 10 Area-tier rows,
\* then the first 5 Address-tier rows, then the first 5 nearby rows of the
\* working set, each tier in working-set order.
C5_TieredCaps ==
    (Returned /\ intent = "find_clinic" /\ Truthy(LocKey)) =>
        results = Take(TierRows(1), 10) \o Take(TierRows(2), 5) \o Take(TierRows(3), 5)

\* C5 witness: a returned clinic search in which the Area tier holds more
\* than 10 rows and the Address tier more than 5, and 15 rows came back.
C5_Witness ==
    /\ Returned /\ intent = "find_clinic" /\ Truthy(LocKey)
    /\ Len(TierRows(1)) > 10
    /\ Len(TierRows(2)) > 5
    /\ Len(results) = 15

\* C6 (as claimed): the filter pipeline applied to its own output, with the
\* same intent and filters, gives the same rows in the same order.
C6_Idempotent ==
    pc = "rank" =>
        LET again == FilterPipeline(Reload(filtered_df), intent, filters)
        IN  again.err = None /\ CellsOf(again.df) = CellsOf(filtered_df)

\* C7: a filter stage that completes leaves only rows that were in the
\* working set before it.
C7_StagesNarrow ==
    [][(pc \in {"specialty", "language", "location"} /\ pc' # "done")
        => RowSet(filtered_df') \subseteq RowSet(filtered_df)]_vars

\* C7 witness: the specialty stage has gone through the pediatric retry on
\* the original dataset and kept some rows but not all.
C7_Witness ==
    /\ pc = "language"
    /\ IsPediatric(CorrectedSpecialty(Get(filters, "Specialty", None)))
    /\ ~\E i \in 1..Len(target_df.rows), j \in 1..Len(fallback_specialties) :
            StrContains(Cell(target_df.rows[i], "Specialty"), fallback_specialties[j])
    /\ filtered_df.rows # <<>>
    /\ Len(filtered_df.rows) < Len(target_df.rows)

\* C9 (as claimed): a filter stage whose columns are all absent from the
\* working set is skipped and leaves the working set as it was.
C9_MissingColumnSkips ==
    [][/\ (/\ pc = "specialty"
           /\ Truthy(Get(filters, "Specialty", None))
           /\ ~SomeColumn(filtered_df, search_columns))
          => (pc' = "language" /\ filtered_df' = filtered_df)
       /\ (/\ pc = "language"
           /\ Truthy(Get(filters, "Languages", None))
           /\ "Languages" \notin filtered_df.cols)
          => (pc' = "location" /\ filtered_df' = filtered_df)
       /\ (/\ pc = "location"
           /\ Truthy(LocKey)
           /\ intent \in {"find_clinic", "find_doctor"}
           /\ ~SomeColumn(filtered_df, <<"Area", "Address">>))
          => (pc' = "rank" /\ filtered_df' = filtered_df)]_vars

RawSpecialty == Get(filters, "Specialty", None)

\* does some of the given columns of the row contain one of the four
\* fallback specialties, case-insensitively
MatchesFallback(row, columns) ==
    \E c \in 1..Len(columns), j \in 1..Len(fallback_specialties) :
        StrContains(Cell(row, columns[c]), fallback_specialties[j])

\* C11 (as claimed): with the Specialty filter "Paediatric", the specialty
\* stage does not leave an empty working set when some row of the provider
\* dataset has one of the four fallback specialties in its Specialty column.
C11_PaediatricNeverEmpty ==
    (/\ pc = "language"
     /\ intent = "find_doctor"
     /\ RawSpecialty = "Paediatric"
     /\ \E i \in 1..Len(target_df.rows) :
            MatchesFallback(target_df.rows[i], <<"Specialty">>))
        => ~IsEmpty(filtered_df)

\* C12: when the datasets are loaded and think() returns None or an empty
\* dict, search ends with an empty result list and the diagnostic message in
\* the place of the plan, no filter stage has touched a working set, and no
\* exception was raised.
C12_NoPlanNoSearch ==
    (pc = "done" /\ df_c # NoneObj /\ df_d # NoneObj /\ plan \in {NoneObj, <<>>}) =>
        /\ results = <<>>
        /\ meta = [message |-> "API not connected or think failed"]
        /\ raised = None
        /\ target_df = NoneObj /\ filtered_df = NoneObj
        /\ intent = "" /\ filters = <<>> /\ keywords = ""

\* C12 witness: think() returned an empty dict for a loaded provider dataset
\* with rows, and search is over with no result and the message.
C12_Witness ==
    /\ pc = "done"
    /\ plan = <<>>
    /\ df_d # NoneObj /\ Len(df_d.rows) > 0
    /\ results = <<>>
    /\ meta = [message |-> "API not connected or think failed"]
    /\ filtered_df = NoneObj

\* the sector of a postal code (lines 499-500)
Sector(p) == p \div 10000

\* C13: for two codes of the same sector calculate_postal_distance returns
\* the absolute difference of the codes (held in hundredths: times 100).
C13_SameSectorDifference ==
    (pc = "postal_return" /\ Sector(postal1) = Sector(postal2)) =>
        distance = 100 * (IF postal1 >= postal2 THEN postal1 - postal2
                          ELSE postal2 - postal1)

\* C13 witness: the call distance(640526, 640652) returned 126.
C13_Witness ==
    /\ pc = "postal_return"
    /\ postal1 = 640526 /\ postal2 = 640652
    /\ distance = 12600

\* |sector(p1) - sector(p2)|
SectorGap(p1, p2) ==
    IF Sector(p1) >= Sector(p2) THEN Sector(p1) - Sector(p2)
    ELSE Sector(p2) - Sector(p1)

\* a cross-sector pair the sector-adjacency table has no entry for
Uncharted(p1, p2) ==
    /\ Sector(p1) # Sector(p2)
    /\ area_pair(Sector(p1), Sector(p2)) \notin DOMAIN area_distances

\* the sector gaps that some uncharted pair has
UnchartedGaps ==
    {g \in 1..99 : \E s \in 0..(99 - g) : <<s, s + g>> \notin DOMAIN area_distances}

\* the distances of all uncharted pairs of the codes tried with sector gap g
DistancesAtGap(g) ==
    {calculate_postal_distance(s1 * 10000 + l1, s2 * 10000 + l2) :
        <<s1, s2>> \in {p \in UNION {{<<s, s + g>>, <<s + g, s>>} : s \in 0..(99 - g)} :
                          area_pair(p[1], p[2]) \notin DOMAIN area_distances},
        l1 \in PostalLows, l2 \in PostalLows}

\* the least distance of an uncharted pair with sector gap g
GapFloor == [g \in UnchartedGaps |->
                LET D == DistancesAtGap(g) IN CHOOSE d \in D : \A e \in D : d <= e]

\* the greatest distance of an uncharted pair with sector gap g
GapCeiling == [g \in UnchartedGaps |->
                LET D == DistancesAtGap(g) IN CHOOSE d \in D : \A e \in D : d >= e]

\* C14: the distance returned for an uncharted cross-sector pair is not
\* above the distance of any uncharted pair with a larger sector gap and not
\* below the distance of any uncharted pair with a smaller one, whatever the
\* last four digits of the four codes.
C14_MonotoneInGap ==
    (pc = "postal_return" /\ Uncharted(postal1, postal2)) =>
        \A g \in UnchartedGaps :
            /\ g > SectorGap(postal1, postal2) => distance <= GapFloor[g]
            /\ g < SectorGap(postal1, postal2) => distance >= GapCeiling[g]

\* C14 witness: an uncharted pair with sector gap 2 whose last four digits
\* are as far apart as they can be returned less than every uncharted pair
\* with sector gap 3, one of which has equal last four digits.
C14_Witness ==
    /\ pc = "postal_return"
    /\ Uncharted(postal1, postal2)
    /\ SectorGap(postal1, postal2) = 2
    /\ sub_distance(postal1, postal2) = 9999
    /\ distance = 2009999
    /\ GapFloor[3] = 3000000

\* the rows of a frame that satisfy a predicate on rows, in frame order
RowsWhere(df, Test(_)) == SelectSeq(df.rows, Test)

\* C15 (as claimed): when the Specialty filter is "paediatric" or
\* "pediatric" in any letter case, before or after the correction table, the
\* specialty stage keeps the rows of the working set that have one of the
\* four fallback specialties in Specialty, Designation or Services; only when
\* there is no such row does it keep the rows of the dataset that contain
\* the pediatric term in one of these columns.
C15_FallbackOverThreeColumns ==
    [][(/\ pc = "specialty"
        /\ Truthy(RawSpecialty)
        /\ (IsPediatric(RawSpecialty) \/ IsPediatric(CorrectedSpecialty(RawSpecialty))))
       => LET kept == RowsWhere(filtered_df,
                          LAMBDA row : MatchesFallback(row, search_columns))
              literal == RowsWhere(target_df,
                          LAMBDA row : \E c \in 1..Len(search_columns) :
                              StrContains(Cell(row, search_columns[c]), RawSpecialty))
          IN  /\ pc' = "language"
              /\ filtered_df'.rows = IF kept # <<>> THEN kept ELSE literal]_vars

\* the neighbors the table lists for an area
NeighborsOf(area) == {nearby_areas[area][i] : i \in 1..Len(nearby_areas[area])}

\* the clinic area search found no direct match and looks the location up
\* in the table of neighboring areas (lines 327-342)
ConsultsNeighbors ==
    /\ pc = "location"
    /\ intent = "find_clinic"
    /\ Truthy(LocKey) /\ ~IsPostalCode(LocKey)
    /\ SomeColumn(filtered_df, <<"Area", "Address">>)
    /\ ~SeriesAny(DirectMatches(filtered_df, LocKey))
    /\ Lower(LocKey) \in DOMAIN nearby_areas

\* C16 (as claimed): whenever the clinic search falls back to the neighbors
\* of an area, every listed neighbor that is itself a key of the table
\* lists that area among its own neighbors.
C16_NeighborsSymmetric ==
    ConsultsNeighbors =>
        \A b \in NeighborsOf(Lower(LocKey)) :
            b \in DOMAIN nearby_areas => Lower(LocKey) \in NeighborsOf(b)

\* the row contains the location in Area or in Address, case-insensitively
MatchesDirectly(row) ==
    StrContains(Cell(row, "Area"), LocKey) \/ StrContains(Cell(row, "Address"), LocKey)

\* the row's Area contains one of the neighbors listed for the location
MatchesNeighbor(row) ==
    /\ Lower(LocKey) \in DOMAIN nearby_areas
    /\ \E b \in NeighborsOf(Lower(LocKey)) : StrContains(Cell(row, "Area"), b)

\* C17 (as claimed): in a clinic search by area name the location stage
\* keeps exactly the rows of the working set that contain the location in
\* Area or Address when there is such a row; otherwise exactly the rows whose
\* Area contains a neighbor listed for the location, which is no row when
\* the location is not a key of the table.
C17_NeighborsOnlyWithoutDirect ==
    [][(/\ pc = "location"
        /\ intent = "find_clinic"
        /\ Truthy(LocKey) /\ ~IsPostalCode(LocKey)
        /\ ~RegexInvalid(LocKey))
       => LET direct == RowsWhere(filtered_df, MatchesDirectly)
          IN  /\ pc' = "rank"
              /\ filtered_df'.rows =
                    IF direct # <<>> THEN direct
                    ELSE RowsWhere(filtered_df, MatchesNeighbor)]_vars

\* the first 6-digit code after "Singapore" and blanks in the row's Address
\* lies at position i: nine letters, w >= 1 blanks, six digits
CodeAt(row, i, w) ==
    LET address == Cell(row, "Address")
    IN  /\ w >= 1
        /\ i + 8 + w + 6 <= Len(address)
        /\ SubSeq(address, i, i + 8) = "Singapore"
        /\ \A k \in 1..w : CharAt(address, i + 8 + k) = " "
        /\ \A k \in 1..6 : CharAt(address, i + 8 + w + k) \in DigitChars

\* the row's Address has an extractable postal code
HasCode(row) ==
    \E i \in 1..Len(Cell(row, "Address")), w \in 1..Len(Cell(row, "Address")) :
        CodeAt(row, i, w)

\* the code re.search extracts from the row's Address: the leftmost match
\* with all the blanks \s+ can take
RowCode(row) ==
    LET address == Cell(row, "Address")
        n == Len(address)
        i == CHOOSE p \in 1..n :
                /\ \E w \in 1..n : CodeAt(row, p, w)
                /\ \A q \in 1..(p - 1) : \A w \in 1..n : ~CodeAt(row, q, w)
        w == CHOOSE v \in 1..n :
                CodeAt(row, i, v) /\ \A u \in (v + 1)..n : ~CodeAt(row, i, u)
    IN  StrToInt(SubSeq(address, i + 9 + w, i + 14 + w))

RECURSIVE RowDistances(_)
\* the distance of each row from the queried postal code, in hundredths
RowDistances(rows) ==
    IF rows = <<>> THEN <<>>
    ELSE <<calculate_postal_distance(StrToInt(LocKey), RowCode(Head(rows)))>>
         \o RowDistances(Tail(rows))

\* the place of the i-th of the rows in ascending order of the distances d,
\* rows of equal distance in their given order
PlaceByDistance(d, i) ==
    1 + Cardinality({j \in 1..Len(d) : d[j] < d[i] \/ (d[j] = d[i] /\ j < i)})

\* C18: the postal-code location stage of a clinic search raises nothing and
\* outputs the working-set rows that have an extractable postal code, each
\* with _distance = calculate_postal_distance(query, its code), in ascending
\* order of _distance (rows of equal distance in working-set order), cut to
\* the 20 closest; no row when no address holds a code.
C18_PostalStage ==
    [][(pc = "location" /\ OnPostalPath)
       => LET coded == RowsWhere(filtered_df, HasCode)
              d == RowDistances(coded)
              out == filtered_df'.rows
          IN  /\ pc' = "rank"
              /\ Len(out) = (IF Len(coded) < 20 THEN Len(coded) ELSE 20)
              /\ \A i \in 1..Len(coded) :
                    PlaceByDistance(d, i) <= 20 =>
                        /\ SourceCells(out[PlaceByDistance(d, i)].c) = coded[i].c
                        /\ out[PlaceByDistance(d, i)].c["_distance"] = d[i]]_vars

\* C18 witness: the stage has cut more than 20 rows with a code to 20, put a
\* row of the second run before one of the first, and the working set it
\* started from held rows without a code.
C18_Witness ==
    /\ pc = "rank" /\ OnPostalPath
    /\ Len(filtered_df.rows) = 20
    /\ Cardinality({i \in 1..Len(target_df.rows) : HasCode(target_df.rows[i])}) > 20
    /\ filtered_df.rows[1].c["_distance"] < filtered_df.rows[20].c["_distance"]
    /\ \E k, l \in 1..20 :
          /\ k < l
          /\ StartsWith(filtered_df.rows[k].c["Name"], "Clinic K2")
          /\ StartsWith(filtered_df.rows[l].c["Name"], "Clinic J1")

\* the weighted scores of the matches in a strategy's list that carry the
\* name with a raw score above 25: raw * num / 10 above the threshold, raw
\* otherwise
Reports(matches, name, threshold, num) ==
    {IF Gt(matches[i].score, Whole(threshold))
     THEN Times(matches[i].score, num, 10)
     ELSE matches[i].score :
        i \in {j \in 1..Len(matches) :
                 matches[j].name = name /\ Gt(matches[j].score, Whole(25))}}

\* the four lists of matches the strategies report for the working set
StrategyLists ==
    LET names == NamesOf(filtered_df)
    IN  [token_set  |-> extract(keywords, names, "token_set", processor),
         partial    |-> extract(keywords, names, "partial", processor),
         token_sort |-> extract(keywords, names, "token_sort", processor),
         multi_word |-> multi_word_matches(keywords, names)]

\* the weighted scores reported for a name: weight 1.1 above 90 for token
\* set, 1.2 above 80 for partial, none for token sort (no raw score is above
\* 100), 1.3 above 50 for the word matcher
AllReports(lists, name) ==
    Reports(lists.token_set, name, 90, 11)
    \cup Reports(lists.partial, name, 80, 12)
    \cup Reports(lists.token_sort, name, 100, 10)
    \cup Reports(lists.multi_word, name, 50, 13)

\* the fused entries that carry the name
EntriesOf(name) ==
    {i \in 1..Len(sorted_matches) : sorted_matches[i].name = name}

\* C19: after the fusion every name some strategy reported with a raw score
\* above 25 has exactly one fused entry, whose score is the greatest of its
\* weighted scores over the reporting strategies; a name no strategy reported
\* with a raw score above 25 has no fused entry.
C19_FusedScoreIsMaximum ==
    pc = "select" =>
        LET lists == StrategyLists
        IN  \A n \in 1..Len(filtered_df.rows) :
                LET name == filtered_df.rows[n].c["Name"]
                    reported == AllReports(lists, name)
                IN  IF reported = {} THEN EntriesOf(name) = {}
                    ELSE /\ Cardinality(EntriesOf(name)) = 1
                         /\ \A i \in EntriesOf(name) :
                                sorted_matches[i].score = MaxOf(reported)

\* C19 witness: after a fusion, one name has a fused score above 80 that
\* comes from the word matcher's weight 1.3 and is above the weighted token
\* set score reported for it, and another name of the working set has no
\* fused entry.
C19_Witness ==
    /\ pc = "select"
    /\ LET lists == StrategyLists
       IN  \E i \in 1..Len(sorted_matches) :
              LET name == sorted_matches[i].name
                  sets == Reports(lists.token_set, name, 90, 11)
              IN  /\ Gt(sorted_matches[i].score, Whole(80))
                  /\ sorted_matches[i].score \in Reports(lists.multi_word, name, 50, 13)
                  /\ sets # {}
                  /\ \A s \in sets : Gt(sorted_matches[i].score, s)
    /\ \E n \in 1..Len(filtered_df.rows) :
          EntriesOf(filtered_df.rows[n].c["Name"]) = {}

\* C20: for every cross-sector pair, with or without an entry in the
\* sector-adjacency table, calculate_postal_distance returns the sector gap
\* times 10000 plus the difference of the last four digits over 100 (held
\* in hundredths).
C20_TableEqualsGap ==
    (pc = "postal_return" /\ Sector(postal1) # Sector(postal2)) =>
        distance = SectorGap(postal1, postal2) * 1000000
                   + (IF (postal1 % 10000) >= (postal2 % 10000)
                      THEN (postal1 % 10000) - (postal2 % 10000)
                      ELSE (postal2 % 10000) - (postal1 % 10000))

\* C20 witness: a call on a pair the table has an entry of more than one hop
\* for, sectors in descending order, returned the value of the sector gap.
C20_Witness ==
    /\ pc = "postal_return"
    /\ Sector(postal1) = 79 /\ Sector(postal2) = 75
    /\ area_distances[<<75, 79>>] = 4
    /\ (postal1 % 10000) = 526 /\ (postal2 % 10000) = 652
    /\ distance = 4000126

\* C21: when the name search returns the scored selection, no two returned
\* records have the same Name.
C21_NoNameTwice ==
    (NameSearchReturned /\ Selected # <<>>) =>
        \A i, j \in 1..Len(results) :
            i # j => results[i].c["Name"] # results[j].c["Name"]

\* C21 witness: the name search returned a scored selection that holds one
\* record of a name several rows of the working set carry.
C21_Witness ==
    /\ NameSearchReturned /\ Selected # <<>>
    /\ results = Selected
    /\ \E k \in 1..Len(results) :
          Cardinality({n \in 1..Len(filtered_df.rows) :
              filtered_df.rows[n].c["Name"] = results[k].c["Name"]}) > 1

\* the first n elements of a sequence
FirstOf(seq, n) == [i \in 1..(IF Len(seq) < n THEN Len(seq) ELSE n) |-> seq[i]]

\* C22: what a clinic search ends with is determined by the clinic dataset
\* and the filters of the plan alone: the exception of the filter stages, or
\* the tiers (with a location) or the first 15 rows (without) of the filtered
\* dataset; two plans that differ in the keyword only end alike.
C22_KeywordIgnored ==
    (pc = "done" /\ intent = "find_clinic") =>
        LET f == FilterPipeline(df_c, "find_clinic", filters)
            tier(t) == SelectSeq(f.df.rows, LAMBDA row : Tier(row) = t)
        IN  IF f.err # None THEN raised = f.err /\ results = <<>>
            ELSE /\ raised = None
                 /\ results =
                      IF IsEmpty(f.df) THEN <<>>
                      ELSE IF Truthy(LocKey)
                      THEN FirstOf(tier(1), 10) \o FirstOf(tier(2), 5) \o FirstOf(tier(3), 5)
                      ELSE FirstOf(f.df.rows, 15)

\* C22 witness: a clinic search by location whose plan has a keyword that
\* some clinic names contain returned clinics whose name does not contain it
\* along with one whose name does.
C22_Witness ==
    /\ Returned /\ intent = "find_clinic"
    /\ Len(keywords) > 1
    /\ Truthy(LocKey)
    /\ \E i \in 1..Len(results) : Contains(Lower(keywords), Lower(results[i].c["Name"]))
    /\ \E i \in 1..Len(results) : ~Contains(Lower(keywords), Lower(results[i].c["Name"]))

====
